---------------------------- MODULE Spec2Model ----------------------------
(***************************************************************************)
(* The outbound request scheduler of booru-comic-bot                       *)
(* (src/python/src/request_manager.py) together with the start-up code     *)
(* of src/python/src/main.py that runs it, the BooruInterface fetches that  *)
(* submit to it, and the bot around it: the message handlers of            *)
(* commands.py and bot.py, the comic database and the update loop.         *)
(*                                                                         *)
(* Everything runs on one asyncio event loop, so a step of the model is    *)
(* the code a task runs between two suspension points (await).             *)
(***************************************************************************)
EXTENDS Integers, Sequences, FiniteSets, Bags, TLC

\* ------------------------------------------------------------------ bounds
\* Number of run_get_request calls made during one run.
MaxRequests == 4

\* Number of PromisedResponse objects exercised on their own.
MaxPromises == 2

\* Number of run_get_request calls made in a run where loop_and_request is
\* started again.
MaxSecondStartRequests == 3

\* --------------------------------------------------------------- constants
ATTEMPT_MAX == 3

SCHEDULED == 1
USER == 2

Priority == {SCHEDULED, USER}

\* The request loops main hands to loop.create_task: request_loop, once.
LoopTasksTwice == {1, 2}
LoopTasks == {1}

\* Every loop_and_request task there can be: the ones main creates, and the
\* one a further call of loop_and_request on the same RequestManager makes.
Tasks == LoopTasks \cup {2}

Requests == 1 .. MaxRequests

\* Python's None.
None == << >>

\* The parsed body resp.json() gives for attempt k of request r.
Response(r, k) == <<r, k>>

VARIABLES
    mainpc,          \* position of main(): "pre_loop", "create_tasks", "run_forever", "exited"
    aiohttp_session, \* number of open ClientSession objects (start_session opens one)
    request_queue,   \* the heap list inside the PriorityQueue (index 0 first)
    promise,         \* promise[r]: the PromisedResponse of request r
    callerpc,        \* callerpc[r]: position of the run_get_request call for r
    result,          \* result[r]: what run_get_request returned to the caller of r
    pc,              \* pc[l]: position of loop_and_request task l
    request_to_run,  \* request_to_run[l]: local of loop_and_request
    attempt,         \* attempt[l]: local of loop_and_request
    attempts,        \* instrumentation: attempts[r] = transport attempts started for r
    outcome,         \* instrumentation: outcome[r] = how the latest attempt of r ended
    inflight,        \* instrumentation: requests with a transport call in flight
    paced,           \* instrumentation: a whole pacing sleep lies behind the latest attempt start
    fresh,           \* instrumentation: fresh[l] = the sleep of l began after the latest attempt start
    origin,          \* instrumentation: origin[r] = the method that called run_get_request for r
    fetch_pool_error,\* the exception fetch_pool calls have raised, "none" before
    chat_state,      \* chat_state[u]: the FSM state aiogram keeps for the chat of user u
    handling,        \* handling[u]: bag of the handlers of u's messages suspended in an await
    comics,          \* ComicDB._comics: comic id -> entry (in memory)
    comics_file,     \* the content of data/comicdb.json
    db_call,         \* instrumentation: the ComicTracker call made by the latest bot step
    update_pc        \* position of the loop_send_updates task

vars == <<mainpc, aiohttp_session, request_queue, promise, callerpc, result,
          pc, request_to_run, attempt, attempts, outcome, inflight, paced, fresh,
          origin, fetch_pool_error,
          chat_state, handling, comics, comics_file, db_call, update_pc>>

mainVars == <<mainpc, aiohttp_session>>
callerVars == <<callerpc, result>>
loopVars == <<pc, request_to_run, attempt>>
ghostVars == <<attempts, outcome, inflight, paced, fresh>>
booruVars == <<origin, fetch_pool_error>>
dbVars == <<comics, comics_file, db_call>>
botVars == <<chat_state, handling, dbVars, update_pc>>

\* ------------------------------------------------------- PromisedResponse
NewPromise == [complete |-> FALSE, return_value |-> None, promise_broken |-> FALSE]

fulfill(p, completion) == [p EXCEPT !.return_value = completion, !.complete = TRUE]

break_promise(p) == [p EXCEPT !.promise_broken = TRUE]

\* The message of the PromiseBreakException wait_for_promised_request raises.
PromiseBreakMessage == "Could not fulfill request promise"

\* WaitOnce with the broken test missing from the loop: the loop ends on
\* either flag and the return value is handed back.
WaitOnceNoAssert(p) ==
    IF p.complete \/ p.promise_broken THEN [do |-> "return", value |-> p.return_value]
    ELSE [do |-> "sleep", value |-> None]

\* What wait_for_promised_request does on one pass of its while loop.
WaitOnce(p) ==
    IF p.complete THEN [do |-> "return", value |-> p.return_value]
    ELSE IF p.promise_broken THEN [do |-> "raise", value |-> PromiseBreakMessage]
    ELSE [do |-> "sleep", value |-> None]

\* ------------------------------------------- PriorityQueue (heapq) on a list
\* PrioritizedRequest is ordered by its priority field alone (compare=False
\* on request and promise).
Lt(a, b) == a.priority < b.priority

\* 0-based indexing of a Python list held as a sequence.
At(heap, i) == heap[i + 1]
Put(heap, i, x) == [heap EXCEPT ![i + 1] = x]

RECURSIVE SiftDown(_, _, _, _)
\* heapq._siftdown: move newitem up from pos towards startpos.
SiftDown(heap, startpos, pos, newitem) ==
    IF pos > startpos /\ Lt(newitem, At(heap, (pos - 1) \div 2))
    THEN SiftDown(Put(heap, pos, At(heap, (pos - 1) \div 2)), startpos,
                  (pos - 1) \div 2, newitem)
    ELSE Put(heap, pos, newitem)

RECURSIVE SiftUpLoop(_, _, _)
\* the while loop of heapq._siftup: bubble the smaller child up until a leaf;
\* gives the list and the leaf position reached.
SiftUpLoop(heap, pos, endpos) ==
    LET childpos == 2 * pos + 1
        rightpos == childpos + 1
        pick == IF rightpos < endpos /\ ~Lt(At(heap, childpos), At(heap, rightpos))
                THEN rightpos ELSE childpos
    IN IF childpos < endpos
       THEN SiftUpLoop(Put(heap, pos, At(heap, pick)), pick, endpos)
       ELSE <<heap, pos>>

SiftUp(heap, pos) ==
    LET newitem == At(heap, pos)
        down == SiftUpLoop(heap, pos, Len(heap))
    IN SiftDown(down[1], pos, down[2], newitem)

\* PriorityQueue.put -> heappush
HeapPush(heap, item) == SiftDown(Append(heap, item), 0, Len(heap), item)

\* HeapPop reading the root item and leaving it in the list.
HeapPopPeek(heap) == <<heap[1], heap>>

\* PriorityQueue.get -> heappop: <<item returned, list left>>
HeapPop(heap) ==
    LET lastelt == heap[Len(heap)]
        rest == SubSeq(heap, 1, Len(heap) - 1)
    IN IF rest # << >>
       THEN <<heap[1], SiftUp(Put(rest, 0, lastelt), 0)>>
       ELSE <<lastelt, rest>>

\* A PrioritizedRequest; its promise field is promise[request].
PrioritizedRequest(priority, request) == [priority |-> priority, request |-> request]

\* The local request_to_run before its first assignment.
Unbound == PrioritizedRequest(0, 0)

\* ------------------------------------------------ chats, texts and comics
\* Number of requests the BooruInterface fetches submit during one run.
MaxFetches == 3

\* Number of chats that send messages to the bot.
MaxChats == 1

\* Number of handlers of one chat suspended in an await at once.
MaxInFlight == 2

\* Number of distinct comic ids (and of user ids handed to the ComicTracker).
MaxIds == 2

\* Length a comic's users list may reach.
MaxFollowers == 2

\* The user id of a chat is its number; ids are strings in the program, so a
\* user id and a comic id can be the same value.
Chats == 1 .. MaxChats
Ids == 1 .. MaxIds

\* states.py; NoState is the state of a chat whose state was never set or was
\* cleared.
NoState == "None"
DeletingSelf_areyousure == "DeletingSelf:areyousure"
Searching_option == "Searching:option"
SelectingDelete_option == "SelectingDelete:option"

\* A message text, split into the command it starts with ("" when it starts
\* with none) and what follows.
Commands == {"/start", "/stop", "/search", "/rem", "/list", "/help"}
Text(command, rest) == [command |-> command, rest |-> rest]
ConfirmText == Text("", "Yes, I am absolutely sure.")
CancelText == Text("", "cancel")

\* The keyboard option search_comic offers for comic c: its text ends "(c)".
ComicOption(c) == Text("", "Comic (" \o ToString(c) \o ")")

Texts ==
    {Text(c, "") : c \in Commands}
        \cup {Text("/search", " q"), ConfirmText, CancelText, Text("", "hello")}
        \cup {ComicOption(c) : c \in Ids}

\* " " in message.text
HasSpace(text) == text.rest \notin {"", "cancel", "hello"}

\* re.findall("\([\d]+\)", message.text): the ids in parentheses in the text.
Findall(text) == {c \in Ids : text = ComicOption(c)}

\* ComicDB: an entry is a ComicObj with its users list, or the str that
\* _check_updates puts in its place.
ComicObj(users) == [kind |-> "ComicObj", users |-> users]
StrEntry == [kind |-> "str", users |-> << >>]
EmptyDB == << >>

Range(seq) == {seq[i] : i \in DOMAIN seq}

\* list.remove(x): the list without its first x.
RECURSIVE ListRemove(_, _)
ListRemove(list, x) ==
    IF list = << >> THEN << >>
    ELSE IF Head(list) = x THEN Tail(list)
    ELSE <<Head(list)>> \o ListRemove(Tail(list), x)

\* The ComicTracker call a bot step made.
Call(op, user_id, comic_id, raised) ==
    [op |-> op, user_id |-> user_id, comic_id |-> comic_id, raised |-> raised]
NoCall == Call("none", 0, 0, "none")

\* ----------------------------------------------------------------- Init
Init ==
    /\ mainpc = "pre_loop"
    /\ aiohttp_session = 0
    /\ request_queue = << >>
    /\ promise = [r \in Requests |-> NewPromise]
    /\ callerpc = [r \in Requests |-> "not_called"]
    /\ result = [r \in Requests |-> None]
    /\ pc = [l \in Tasks |-> "not_started"]
    /\ request_to_run = [l \in Tasks |-> Unbound]
    /\ attempt = [l \in Tasks |-> 0]
    /\ attempts = [r \in Requests |-> 0]
    /\ outcome = [r \in Requests |-> "none"]
    /\ inflight = {}
    /\ paced = TRUE
    /\ fresh = [l \in Tasks |-> FALSE]
    /\ origin = [r \in Requests |-> "none"]
    /\ fetch_pool_error = "none"
    /\ chat_state = [u \in Chats |-> NoState]
    /\ handling = [u \in Chats |-> EmptyBag]
    /\ comics = EmptyDB
    /\ comics_file = EmptyDB
    /\ db_call = NoCall
    /\ update_pc = "not_started"

\* ----------------------------------------------------------------- main
\* main(): loop.run_until_complete(start_session())
StartSession ==
    /\ mainpc = "pre_loop"
    /\ aiohttp_session' = aiohttp_session + 1
    /\ mainpc' = "create_tasks"
    /\ UNCHANGED <<booruVars, botVars, request_queue, promise, callerVars, loopVars, ghostVars>>

\* main(): loop.create_task for every loop task (request_loop, poll_database
\* and the aiogram polling task), then loop.run_forever()
CreateTasks ==
    /\ mainpc = "create_tasks"
    /\ mainpc' = "run_forever"
    /\ pc' = [l \in Tasks |-> IF l \in LoopTasks THEN "top" ELSE pc[l]]
    /\ update_pc' = "check"
    /\ UNCHANGED <<booruVars, chat_state, handling, dbVars, aiohttp_session, request_queue, promise, callerVars,
                   request_to_run, attempt, ghostVars>>

\* ------------------------------------------------------- run_get_request
\* The next request a caller makes; requests are numbered in call order.
NextRequest == Cardinality({r \in Requests : callerpc[r] # "not_called"}) + 1

\* EnqReq storing the new item in the root slot of the list.
EnqReqOverwrite(queue, request, priority) ==
    IF queue = << >> THEN <<PrioritizedRequest(priority, request)>>
    ELSE Put(queue, 0, PrioritizedRequest(priority, request))

\* _enq_req
EnqReq(queue, request, priority) ==
    HeapPush(queue, PrioritizedRequest(priority, request))

\* run_get_request up to its first suspension: _enq_req, then the first pass
\* of wait_for_promised_request on the fresh promise, which sleeps.
RunGetRequestBy(priority, method) ==
    /\ mainpc = "run_forever"
    /\ NextRequest \in Requests
    /\ request_queue' = EnqReq(request_queue, NextRequest, priority)
    /\ promise' = [promise EXCEPT ![NextRequest] = NewPromise]
    /\ callerpc' = [callerpc EXCEPT ![NextRequest] = "waiting"]
    /\ origin' = [origin EXCEPT ![NextRequest] = method]
    /\ UNCHANGED <<mainVars, result, loopVars, ghostVars, fetch_pool_error, botVars>>

\* A call of run_get_request(request, priority) by any caller.
RunGetRequest(priority) == RunGetRequestBy(priority, "run_get_request")

\* wait_for_promised_request resumed from asyncio.sleep(0): one more pass.
WaitForPromisedRequest(r) ==
    /\ callerpc[r] = "waiting"
    /\ LET w == WaitOnce(promise[r])
       IN /\ callerpc' = [callerpc EXCEPT ![r] =
                 CASE w.do = "return" -> "returned"
                   [] w.do = "raise" -> "raised"
                   [] OTHER -> "waiting"]
          /\ result' = [result EXCEPT ![r] = w.value]
    /\ UNCHANGED <<booruVars, botVars, mainVars, request_queue, promise, loopVars, ghostVars>>

\* ------------------------------------------------------ loop_and_request
\* _run_one_request entered: session.get(...) is issued and awaited.
StartAttempt(l, item, k) ==
    /\ request_to_run' = [request_to_run EXCEPT ![l] = item]
    /\ attempt' = [attempt EXCEPT ![l] = k]
    /\ pc' = [pc EXCEPT ![l] = "get"]
    /\ attempts' = [attempts EXCEPT ![item.request] = @ + 1]
    /\ outcome' = [outcome EXCEPT ![item.request] = "none"]
    /\ inflight' = inflight \cup {item.request}
    /\ paced' = FALSE
    /\ fresh' = [m \in Tasks |-> FALSE]

\* while True: the queue is empty -> await asyncio.sleep(0)
LoopIdle(l) ==
    /\ pc[l] = "top"
    /\ request_queue = << >>
    /\ pc' = [pc EXCEPT ![l] = "yield"]
    /\ UNCHANGED <<booruVars, botVars, mainVars, request_queue, promise, callerVars,
                   request_to_run, attempt, ghostVars>>

\* resumed from asyncio.sleep(0) without the continue: falls through to get(),
\* which blocks the thread when the queue is still empty
LoopResumeNoContinue(l) ==
    /\ pc[l] = "yield"
    /\ IF request_queue = << >>
       THEN /\ pc' = [pc EXCEPT ![l] = "blocked"]
            /\ UNCHANGED <<request_queue, request_to_run, attempt, ghostVars>>
       ELSE LET got == HeapPop(request_queue)
            IN /\ request_queue' = got[2]
               /\ StartAttempt(l, got[1], 1)
    /\ UNCHANGED <<booruVars, botVars, mainVars, promise, callerVars>>

\* resumed from asyncio.sleep(0): continue
LoopResume(l) ==
    /\ pc[l] = "yield"
    /\ pc' = [pc EXCEPT ![l] = "top"]
    /\ UNCHANGED <<booruVars, botVars, mainVars, request_queue, promise, callerVars,
                   request_to_run, attempt, ghostVars>>

\* while True: the queue is not empty -> get(), attempt 1 begins
LoopDequeue(l) ==
    /\ pc[l] = "top"
    /\ request_queue # << >>
    /\ LET got == HeapPop(request_queue)
       IN /\ request_queue' = got[2]
          /\ StartAttempt(l, got[1], 1)
    /\ UNCHANGED <<booruVars, botVars, mainVars, promise, callerVars>>

\* async with session.get(...) as resp: the GET either yields a response or
\* raises; a raise is outside the try block, leaves _run_one_request and
\* loop_and_request, and ends the task.
GetDone(l, out) ==
    /\ pc[l] = "get"
    /\ out \in {"response", "transport_error"}
    /\ IF out = "response"
       THEN /\ pc' = [pc EXCEPT ![l] = "json"]
            /\ UNCHANGED <<outcome, inflight>>
       ELSE /\ pc' = [pc EXCEPT ![l] = "dead"]
            /\ outcome' = [outcome EXCEPT ![request_to_run[l].request] = "transport_error"]
            /\ inflight' = inflight \ {request_to_run[l].request}
    /\ UNCHANGED <<booruVars, botVars, mainVars, request_queue, promise, callerVars,
                   request_to_run, attempt, attempts, paced, fresh>>

\* try: promise.fulfill(await resp.json()) except Exception: ...
\* then asyncio.sleep(HALF_RATE_LIMIT + 0.01) begins.
AfterJson(p, out, r, k) ==
    IF out = "ok" THEN fulfill(p, Response(r, k))
    ELSE IF k = ATTEMPT_MAX THEN break_promise(p)
    ELSE p

\* JsonDone resolving the promise of the item now first in the queue, when
\* there is one, instead of the promise of the item it holds.
JsonDoneHead(l, out) ==
    /\ pc[l] = "json"
    /\ out \in {"ok", "malformed"}
    /\ promise' = [promise EXCEPT
          ![IF request_queue # << >> THEN request_queue[1].request
            ELSE request_to_run[l].request] =
             AfterJson(@, out, request_to_run[l].request, attempt[l])]
    /\ pc' = [pc EXCEPT ![l] = "pacing"]
    /\ outcome' = [outcome EXCEPT ![request_to_run[l].request] = out]
    /\ inflight' = inflight \ {request_to_run[l].request}
    /\ fresh' = [fresh EXCEPT ![l] = TRUE]
    /\ UNCHANGED <<booruVars, botVars, mainVars, request_queue, callerVars, request_to_run, attempt,
                   attempts, paced>>

\* JsonDone with the break taken right after a success, ahead of the sleep.
JsonDoneNoPace(l, out) ==
    /\ pc[l] = "json"
    /\ out \in {"ok", "malformed"}
    /\ promise' = [promise EXCEPT ![request_to_run[l].request] =
                      AfterJson(@, out, request_to_run[l].request, attempt[l])]
    /\ pc' = [pc EXCEPT ![l] = IF out = "ok" THEN "top" ELSE "pacing"]
    /\ outcome' = [outcome EXCEPT ![request_to_run[l].request] = out]
    /\ inflight' = inflight \ {request_to_run[l].request}
    /\ fresh' = [fresh EXCEPT ![l] = (out # "ok")]
    /\ UNCHANGED <<booruVars, botVars, mainVars, request_queue, callerVars, request_to_run, attempt,
                   attempts, paced>>

JsonDone(l, out) ==
    /\ pc[l] = "json"
    /\ out \in {"ok", "malformed"}
    /\ promise' = [promise EXCEPT ![request_to_run[l].request] =
                      AfterJson(@, out, request_to_run[l].request, attempt[l])]
    /\ pc' = [pc EXCEPT ![l] = "pacing"]
    /\ outcome' = [outcome EXCEPT ![request_to_run[l].request] = out]
    /\ inflight' = inflight \ {request_to_run[l].request}
    /\ fresh' = [fresh EXCEPT ![l] = TRUE]
    /\ UNCHANGED <<booruVars, botVars, mainVars, request_queue, callerVars, request_to_run, attempt,
                   attempts, paced>>

\* the pacing sleep is over: break, or the next attempt of the for loop
Resolved(p) == p.complete \/ p.promise_broken

\* PaceDone without the break on a resolved promise: the for loop runs on.
PaceDoneNoBreak(l) ==
    /\ pc[l] = "pacing"
    /\ IF attempt[l] < ATTEMPT_MAX
       THEN StartAttempt(l, request_to_run[l], attempt[l] + 1)
       ELSE /\ pc' = [pc EXCEPT ![l] = "top"]
            /\ paced' = (paced \/ fresh[l])
            /\ UNCHANGED <<request_to_run, attempt, attempts, outcome, inflight, fresh>>
    /\ UNCHANGED <<booruVars, botVars, mainVars, request_queue, promise, callerVars>>

\* PaceDone with a failed request put back in the queue for its retry
\* instead of being retried in place.
PaceDoneRequeue(l) ==
    /\ pc[l] = "pacing"
    /\ pc' = [pc EXCEPT ![l] = "top"]
    /\ paced' = (paced \/ fresh[l])
    /\ request_queue' =
          IF ~Resolved(promise[request_to_run[l].request]) /\ attempt[l] < ATTEMPT_MAX
          THEN HeapPush(request_queue, request_to_run[l])
          ELSE request_queue
    /\ UNCHANGED <<booruVars, botVars, mainVars, promise, callerVars, request_to_run, attempt,
                   attempts, outcome, inflight, fresh>>

PaceDone(l) ==
    /\ pc[l] = "pacing"
    /\ IF ~Resolved(promise[request_to_run[l].request]) /\ attempt[l] < ATTEMPT_MAX
       THEN StartAttempt(l, request_to_run[l], attempt[l] + 1)
       ELSE /\ pc' = [pc EXCEPT ![l] = "top"]
            /\ paced' = (paced \/ fresh[l])
            /\ UNCHANGED <<request_to_run, attempt, attempts, outcome, inflight, fresh>>
    /\ UNCHANGED <<booruVars, botVars, mainVars, request_queue, promise, callerVars>>

\* ------------------------------------------------------------------ Next
Next ==
    \/ StartSession
    \/ CreateTasks
    \/ \E p \in Priority : RunGetRequest(p)
    \/ \E r \in Requests : WaitForPromisedRequest(r)
    \/ \E l \in Tasks : LoopIdle(l)
    \/ \E l \in Tasks : LoopResume(l)
    \/ \E l \in Tasks : LoopDequeue(l)
    \/ \E l \in Tasks : \E out \in {"response", "transport_error"} : GetDone(l, out)
    \/ \E l \in Tasks : \E out \in {"ok", "malformed"} : JsonDone(l, out)
    \/ \E l \in Tasks : PaceDone(l)

Spec == Init /\ [][Next]_vars

\* The dispatch loop and the callers are tasks of one event loop, which runs
\* every ready task; the transport answers or fails every call.
FairSpec ==
    /\ Spec
    /\ \A l \in Tasks :
          WF_vars(LoopIdle(l) \/ LoopResume(l) \/ LoopDequeue(l) \/ PaceDone(l)
                  \/ (\E out \in {"response", "transport_error"} : GetDone(l, out))
                  \/ (\E out \in {"ok", "malformed"} : JsonDone(l, out)))
    /\ \A r \in Requests : WF_vars(WaitForPromisedRequest(r))

\* --------------------------------------- loop_and_request started again
\* A further call of loop_and_request on the same RequestManager, scheduled
\* as a task of the running event loop: nothing in loop_and_request looks
\* for a loop that is already running, so the new task enters while True.
SecondStart(l) ==
    /\ mainpc = "run_forever"
    /\ l \notin LoopTasks
    /\ pc[l] = "not_started"
    /\ pc' = [pc EXCEPT ![l] = "top"]
    /\ UNCHANGED <<booruVars, botVars, mainVars, request_queue, promise, callerVars,
                   request_to_run, attempt, ghostVars>>

NextSecondStart ==
    \/ Next /\ NextRequest' <= MaxSecondStartRequests + 1
    \/ \E l \in Tasks : SecondStart(l)

SpecSecondStart == Init /\ [][NextSecondStart]_vars

\* ------------------------------------------------------ process shutdown
\* loop.run_forever() is ended from outside (an interrupt): main has no
\* statement after it and no source file closes the ClientSession, so the
\* process ends with every task abandoned and the session as it was.
Shutdown ==
    /\ mainpc = "run_forever"
    /\ mainpc' = "exited"
    /\ UNCHANGED <<booruVars, botVars, aiohttp_session, request_queue, promise, callerVars, loopVars,
                   ghostVars>>

NextShutdown ==
    \/ mainpc # "exited" /\ Next
    \/ Shutdown

SpecShutdown == Init /\ [][NextShutdown]_vars

\* ------------------------------------------- PromisedResponse on its own
\* PromisedResponse objects that have been constructed and are awaited, with
\* no dispatch loop running: whoever holds one may call fulfill and
\* break_promise on it in any order.
InitPromise ==
    /\ mainpc = "pre_loop"
    /\ aiohttp_session = 0
    /\ request_queue = << >>
    /\ promise = [r \in Requests |-> NewPromise]
    /\ callerpc = [r \in Requests |-> IF r <= MaxPromises THEN "waiting" ELSE "not_called"]
    /\ result = [r \in Requests |-> None]
    /\ pc = [l \in Tasks |-> "not_started"]
    /\ request_to_run = [l \in Tasks |-> Unbound]
    /\ attempt = [l \in Tasks |-> 0]
    /\ attempts = [r \in Requests |-> 0]
    /\ outcome = [r \in Requests |-> "none"]
    /\ inflight = {}
    /\ paced = TRUE
    /\ fresh = [l \in Tasks |-> FALSE]
    /\ origin = [r \in Requests |-> "none"]
    /\ fetch_pool_error = "none"
    /\ chat_state = [u \in Chats |-> NoState]
    /\ handling = [u \in Chats |-> EmptyBag]
    /\ comics = EmptyDB
    /\ comics_file = EmptyDB
    /\ db_call = NoCall
    /\ update_pc = "not_started"

Fulfill(r, completion) ==
    /\ callerpc[r] # "not_called"
    /\ promise' = [promise EXCEPT ![r] = fulfill(@, completion)]
    /\ UNCHANGED <<booruVars, botVars, mainVars, request_queue, callerVars, loopVars, ghostVars>>

BreakPromise(r) ==
    /\ callerpc[r] # "not_called"
    /\ promise' = [promise EXCEPT ![r] = break_promise(@)]
    /\ UNCHANGED <<booruVars, botVars, mainVars, request_queue, callerVars, loopVars, ghostVars>>

NextPromise ==
    \/ \E r \in Requests : \E k \in 1 .. ATTEMPT_MAX : Fulfill(r, Response(r, k))
    \/ \E r \in Requests : BreakPromise(r)
    \/ \E r \in Requests : WaitForPromisedRequest(r)

SpecPromise == InitPromise /\ [][NextPromise]_vars

\* ------------------------------------------------------- BooruInterface
\* fetch_search: await run_get_request(formedquery, priority=Priority.USER)
FetchSearch == RunGetRequestBy(USER, "fetch_search")

\* fetch_pool: run_get_request(url) is called with no priority; binding the
\* arguments raises TypeError, so nothing is enqueued.
FetchPool ==
    /\ mainpc = "run_forever"
    /\ fetch_pool_error' = "TypeError"
    /\ UNCHANGED <<mainVars, request_queue, promise, callerVars, loopVars,
                   ghostVars, origin, botVars>>

\* _check_updates: await run_get_request(url, Priority.SCHEDULED), per comic
CheckUpdates == RunGetRequestBy(SCHEDULED, "_check_updates")

\* _fetch_pages: await run_get_request(url, Priority.SCHEDULED), per page
FetchPages == RunGetRequestBy(SCHEDULED, "_fetch_pages")

NextBooru ==
    \/ StartSession
    \/ CreateTasks
    \/ FetchSearch /\ NextRequest <= MaxFetches
    \/ FetchPool
    \/ CheckUpdates /\ NextRequest <= MaxFetches
    \/ FetchPages /\ NextRequest <= MaxFetches
    \/ \E r \in Requests : WaitForPromisedRequest(r)
    \/ \E l \in Tasks : LoopIdle(l)
    \/ \E l \in Tasks : LoopResume(l)
    \/ \E l \in Tasks : LoopDequeue(l)
    \/ \E l \in Tasks : \E out \in {"response", "transport_error"} : GetDone(l, out)
    \/ \E l \in Tasks : \E out \in {"ok", "malformed"} : JsonDone(l, out)
    \/ \E l \in Tasks : PaceDone(l)

SpecBooru == Init /\ [][NextBooru]_vars

\* ------------------------------------------------ ComicDB and ComicTracker
\* What a call leaves behind: the database in memory, the file, and the
\* exception the call raised ("none" when it returned).
DBResult(mem, file, raised) ==
    [comics |-> mem, comics_file |-> file, raised |-> raised]

\* dict with one more key
DictSet(mem, key, value) ==
    [c \in DOMAIN mem \cup {key} |-> IF c = key THEN value ELSE mem[c]]

\* del dict[key]
DictDel(mem, key) == [c \in DOMAIN mem \ {key} |-> mem[c]]

\* load_comics: every entry of the file becomes a ComicObj.
load_comics(file) == file

\* safe_serialize_comics: updates = {**_comics}; the file is loaded again;
\* _comics.update(updates); _serialize_comics() writes the result, and raises
\* before it opens the file when an entry has no serialize().
safe_serialize_comics(mem, file) ==
    LET loaded == load_comics(file)
        merged == [c \in DOMAIN loaded \cup DOMAIN mem |->
                      IF c \in DOMAIN mem THEN mem[c] ELSE loaded[c]]
    IN IF \E c \in DOMAIN merged : merged[c].kind = "str"
       THEN DBResult(merged, file, "AttributeError")
       ELSE DBResult(merged, merged, "none")

\* ComicDB.remove_user_from_comic(comic_id, userid)
ComicDB_remove_user_from_comic(mem, comic_id, userid) ==
    IF comic_id \notin DOMAIN mem THEN [comics |-> mem, raised |-> "KeyError"]
    ELSE IF mem[comic_id].kind = "str"
    THEN [comics |-> mem, raised |-> "AttributeError"]
    ELSE IF userid \notin Range(mem[comic_id].users)
    THEN [comics |-> mem, raised |-> "ValueError"]
    ELSE LET users == ListRemove(mem[comic_id].users, userid)
         IN IF users = << >>
            THEN [comics |-> DictDel(mem, comic_id), raised |-> "none"]
            ELSE [comics |-> [mem EXCEPT ![comic_id] = ComicObj(users)],
                  raised |-> "none"]

\* ComicTracker.remove_user_from_comic(user_id, comic_id): the ComicDB method
\* is called with (user_id, comic_id) in the places of (comic_id, userid).
remove_user_from_comic(mem, file, user_id, comic_id) ==
    LET r == ComicDB_remove_user_from_comic(mem, user_id, comic_id)
    IN IF r.raised # "none"
       THEN DBResult(mem, file, r.raised)
       ELSE safe_serialize_comics(r.comics, file)

\* ComicTracker.add_user_to_comic(user_id, comic_id); isnew is its return
\* value.
add_user_to_comic(mem, file, user_id, comic_id) ==
    IF comic_id \in DOMAIN mem
    THEN IF mem[comic_id].kind = "str"
         THEN [db |-> DBResult(mem, file, "AttributeError"), isnew |-> FALSE]
         ELSE [db |-> DBResult([mem EXCEPT ![comic_id] =
                                   ComicObj(Append(@.users, user_id))],
                               file, "none"),
               isnew |-> FALSE]
    ELSE [db |-> safe_serialize_comics(
                     DictSet(mem, comic_id, ComicObj(<<user_id>>)), file),
          isnew |-> TRUE]

\* ComicTracker.remove_from_all(user_id): the results it can have. With a
\* str entry in the dict the for loop raises when it reaches it, after the
\* comics that come before it in the dict (any of the others) were handled.
remove_from_all(mem, file, user_id) ==
    LET objs == {c \in DOMAIN mem : mem[c].kind = "ComicObj"}
        after(S) == [c \in DOMAIN mem |->
                        IF c \in S /\ user_id \in Range(mem[c].users)
                        THEN ComicObj(ListRemove(mem[c].users, user_id))
                        ELSE mem[c]]
    IN IF objs = DOMAIN mem
       THEN {safe_serialize_comics(after(objs), file)}
       ELSE {DBResult(after(S), file, "AttributeError") : S \in SUBSET objs}

\* add_user_to_comic appends to a list the model keeps within MaxFollowers.
Fits(mem, comic_id) ==
    (comic_id \in DOMAIN mem /\ mem[comic_id].kind = "ComicObj") =>
        Len(mem[comic_id].users) < MaxFollowers

\* The tracker called on its own, by any caller.
AddUserToComic(u, c) ==
    /\ Fits(comics, c)
    /\ LET r == add_user_to_comic(comics, comics_file, u, c).db
       IN /\ comics' = r.comics
          /\ comics_file' = r.comics_file
          /\ db_call' = Call("add_user_to_comic", u, c, r.raised)
    /\ UNCHANGED <<mainVars, request_queue, promise, callerVars, loopVars,
                   ghostVars, booruVars, chat_state, handling, update_pc>>

RemoveUserFromComic(u, c) ==
    /\ LET r == remove_user_from_comic(comics, comics_file, u, c)
       IN /\ comics' = r.comics
          /\ comics_file' = r.comics_file
          /\ db_call' = Call("remove_user_from_comic", u, c, r.raised)
    /\ UNCHANGED <<mainVars, request_queue, promise, callerVars, loopVars,
                   ghostVars, booruVars, chat_state, handling, update_pc>>

RemoveFromAll(u) ==
    /\ \E r \in remove_from_all(comics, comics_file, u) :
          /\ comics' = r.comics
          /\ comics_file' = r.comics_file
          /\ db_call' = Call("remove_from_all", u, 0, r.raised)
    /\ UNCHANGED <<mainVars, request_queue, promise, callerVars, loopVars,
                   ghostVars, booruVars, chat_state, handling, update_pc>>

NextDB ==
    \/ \E u, c \in Ids : AddUserToComic(u, c)
    \/ \E u, c \in Ids : RemoveUserFromComic(u, c)
    \/ \E u \in Ids : RemoveFromAll(u)

SpecDB == Init /\ [][NextDB]_vars

\* ------------------------------------------------------ message handlers
\* The handlers with a state filter registered ahead of the command handlers.
HandlerOrderStateFirst ==
    <<"stop_and_delete", "dont_stop_dont_delete", "cancel",
      "select_search_add_comic", "remove_comic", "start", "stop",
      "search_comic", "select_remove_comic", "list_comics", "send_help",
      "catchall">>

\* commands.py: the handlers in the order they are registered on the router.
HandlerOrder ==
    <<"start", "stop", "stop_and_delete", "dont_stop_dont_delete", "cancel",
      "search_comic", "select_search_add_comic", "select_remove_comic",
      "remove_comic", "list_comics", "send_help", "catchall">>

\* No state filter on any handler.
StateFilterNone(handler, state) == TRUE

\* The state filter of each handler; a handler registered without one takes
\* a message in any state.
StateFilter(handler, state) ==
    CASE handler \in {"stop_and_delete", "dont_stop_dont_delete"} ->
            state = DeletingSelf_areyousure
      [] handler = "cancel" -> state \in {SelectingDelete_option, Searching_option}
      [] handler = "select_search_add_comic" -> state = Searching_option
      [] handler = "remove_comic" -> state = SelectingDelete_option
      [] OTHER -> TRUE

\* The F.text filter of each handler.
TextFilter(handler, text) ==
    CASE handler = "start" -> text.command = "/start"
      [] handler = "stop" -> text.command = "/stop"
      [] handler = "stop_and_delete" -> text = ConfirmText
      [] handler = "dont_stop_dont_delete" -> text # ConfirmText
      [] handler = "cancel" -> text = CancelText
      [] handler = "search_comic" -> text.command = "/search"
      [] handler = "select_search_add_comic" -> text # CancelText
      [] handler = "select_remove_comic" -> text.command = "/rem"
      [] handler = "remove_comic" -> text # CancelText
      [] handler = "list_comics" -> text.command = "/list"
      [] handler = "send_help" -> text.command = "/help"
      [] OTHER -> TRUE

Matches(handler, state, text) ==
    StateFilter(handler, state) /\ TextFilter(handler, text)

\* The router hands a message to the first registered handler whose filters
\* pass.
Route(state, text) ==
    LET first == CHOOSE i \in DOMAIN HandlerOrder :
                    /\ Matches(HandlerOrder[i], state, text)
                    /\ \A j \in 1 .. (i - 1) : ~Matches(HandlerOrder[j], state, text)
    IN HandlerOrder[first]

\* A handler suspended in an await: the message it handles, the chat state
\* the router saw, and what it does when it resumes.
Handler(handler, text, state, then) ==
    [handler |-> handler, text |-> text, state |-> state, then |-> then]

\* What a handler does before its first suspension.
Begun(state, db, call, then) ==
    [chat_state |-> state, db |-> db, call |-> call, then |-> then]

Begin(handler, u, text, state, mem, file) ==
    LET same == DBResult(mem, file, "none")
    IN CASE handler = "stop" ->
               \* await state.set_state(DeletingSelf.areyousure); await answer
               Begun(DeletingSelf_areyousure, same, NoCall, "finish")
         [] handler = "stop_and_delete" ->
               \* await message.answer("Deleting you ...")
               Begun(state, same, NoCall, "delete_and_clear")
         [] handler \in {"dont_stop_dont_delete", "cancel"} ->
               \* await message.answer(...)
               Begun(state, same, NoCall, "clear")
         [] handler = "search_comic" ->
               \* message.text.split(" ", 1)[1] raises IndexError without a
               \* query; else await fetch_search(rawquery)
               Begun(state, same, NoCall,
                     IF HasSpace(text) THEN "search" ELSE "finish")
         [] handler = "select_search_add_comic" ->
               \* findall(...)[-1] raises IndexError without an id; a new
               \* comic is followed by fetch_pool, which raises TypeError
               IF Findall(text) = {}
               THEN Begun(state, same, NoCall, "finish")
               ELSE LET c == CHOOSE c \in Findall(text) : TRUE
                        a == add_user_to_comic(mem, file, u, c)
                    IN Begun(state, a.db,
                             Call("add_user_to_comic", u, c, a.db.raised),
                             IF a.isnew \/ a.db.raised # "none"
                             THEN "finish" ELSE "clear")
         [] handler = "remove_comic" ->
               IF Findall(text) = {}
               THEN Begun(state, same, NoCall, "finish")
               ELSE LET c == CHOOSE c \in Findall(text) : TRUE
                        r == remove_user_from_comic(mem, file, u, c)
                    IN Begun(state, r,
                             Call("remove_user_from_comic", u, c, r.raised),
                             IF r.raised # "none" THEN "finish" ELSE "clear")
         [] OTHER ->
               \* start, list_comics, send_help, catchall: answers only;
               \* select_remove_comic: fetch_users_comics subscripts a
               \* ComicObj (TypeError) or finds no comics, and returns
               Begun(state, same, NoCall, "finish")

\* pdb.set_trace() waiting for input holds the thread of the event loop.
EventLoopRuns == mainpc = "run_forever" /\ update_pc # "debugger"

\* A message of user u arrives: the router picks the handler, which runs up
\* to its first suspension.
Dispatch(u, text) ==
    /\ EventLoopRuns
    /\ BagCardinality(handling[u]) < MaxInFlight
    /\ LET state == chat_state[u]
           handler == Route(state, text)
           b == Begin(handler, u, text, state, comics, comics_file)
       IN /\ handler = "select_search_add_comic" =>
                \A c \in Findall(text) : Fits(comics, c)
          /\ chat_state' = [chat_state EXCEPT ![u] = b.chat_state]
          /\ handling' = [handling EXCEPT ![u] =
                             @ (+) SetToBag({Handler(handler, text, state, b.then)})]
          /\ comics' = b.db.comics
          /\ comics_file' = b.db.comics_file
          /\ db_call' = b.call
    /\ UNCHANGED <<mainVars, request_queue, promise, callerVars, loopVars,
                   ghostVars, booruVars, update_pc>>

\* The rest of a handler, after the await it was suspended in.
Resume(h, u) ==
    \/ /\ h.then = "finish"
       /\ db_call' = NoCall
       /\ UNCHANGED <<chat_state, comics, comics_file>>
    \/ /\ h.then = "clear"
       \* await state.clear()
       /\ chat_state' = [chat_state EXCEPT ![u] = NoState]
       /\ db_call' = NoCall
       /\ UNCHANGED <<comics, comics_file>>
    \/ /\ h.then = "delete_and_clear"
       \* remove_from_all(userid); await state.clear()
       /\ \E r \in remove_from_all(comics, comics_file, u) :
             /\ comics' = r.comics
             /\ comics_file' = r.comics_file
             /\ db_call' = Call("remove_from_all", u, 0, r.raised)
             /\ chat_state' = [chat_state EXCEPT ![u] =
                                  IF r.raised = "none" THEN NoState ELSE @]
    \/ /\ h.then = "search"
       \* fetch_search returned results, returned none, or raised;
       \* with results: await state.set_state(Searching.option)
       /\ \E out \in {"results", "no_results", "raised"} :
             chat_state' = [chat_state EXCEPT ![u] =
                               IF out = "results" THEN Searching_option ELSE @]
       /\ db_call' = NoCall
       /\ UNCHANGED <<comics, comics_file>>

\* A suspended handler of user u resumes and runs to its end.
Complete(u, h) ==
    /\ EventLoopRuns
    /\ BagIn(h, handling[u])
    /\ handling' = [handling EXCEPT ![u] = @ (-) SetToBag({h})]
    /\ Resume(h, u)
    /\ UNCHANGED <<mainVars, request_queue, promise, callerVars, loopVars,
                   ghostVars, booruVars, update_pc>>

\* ------------------------------------------------------ loop_send_updates
\* A cycle in which _check_updates finds nothing new (no comics, no new
\* pages, or fetches that failed): check_fetch_updates returns None and the
\* assignment to updates, full_updates raises TypeError, which ends the task.
CycleNoUpdates ==
    /\ mainpc = "run_forever"
    /\ update_pc = "check"
    /\ update_pc' = "dead"
    /\ db_call' = NoCall
    /\ UNCHANGED <<mainVars, request_queue, promise, callerVars, loopVars,
                   ghostVars, booruVars, chat_state, handling, comics,
                   comics_file>>

\* A cycle in which _check_updates finds new pages for the comics in found
\* and puts a str in their place in the dict: _pair_users_to_comics stops in
\* pdb.set_trace(), which waits for input ("debugger"), or the cycle raises
\* (_fetch_pages fails, pdb quits, or curr_comics[comic_id].users of a str).
CycleUpdates(found, out) ==
    /\ mainpc = "run_forever"
    /\ update_pc = "check"
    /\ found # {}
    /\ found \subseteq {c \in DOMAIN comics : comics[c].kind = "ComicObj"}
    /\ comics' = [c \in DOMAIN comics |->
                     IF c \in found THEN StrEntry ELSE comics[c]]
    /\ update_pc' = out
    /\ db_call' = NoCall
    /\ UNCHANGED <<mainVars, request_queue, promise, callerVars, loopVars,
                   ghostVars, booruVars, chat_state, handling, comics_file>>

NextBot ==
    \/ StartSession
    \/ CreateTasks
    \/ \E u \in Chats : \E text \in Texts : Dispatch(u, text)
    \/ \E u \in Chats : \E h \in BagToSet(handling[u]) : Complete(u, h)
    \/ CycleNoUpdates
    \/ \E found \in SUBSET Ids : \E out \in {"debugger", "dead"} :
          CycleUpdates(found, out)

SpecBot == Init /\ [][NextBot]_vars

\* ================================================================ claims
\* The step in which task l takes an item off the queue.
Dequeues(l) == pc[l] = "top" /\ pc'[l] = "get"

\* The loop has dequeued r and will make no further attempt for it.
Settled(r) ==
    /\ attempts[r] > 0
    /\ \A l \in Tasks :
          request_to_run[l].request = r => pc[l] \in {"top", "yield", "dead"}

Failed(r) == outcome[r] \in {"transport_error", "malformed"}

\* C1: whenever the loop dequeues, the item it takes has the highest priority
\* value of all pending items (USER = 2 before SCHEDULED = 1).
C1_HighestPriorityFirst ==
    [][\A l \in Tasks : Dequeues(l) =>
          \A i \in 1 .. Len(request_queue) :
             request_queue[i].priority <= request_to_run'[l].priority]_vars

\* C2: whenever the loop dequeues, no pending item of the same priority as the
\* item taken was enqueued before it (requests are numbered in enqueue order).
C2_FifoAmongEqualPriority ==
    [][\A l \in Tasks : Dequeues(l) =>
          \A i \in 1 .. Len(request_queue) :
             request_queue[i].priority = request_to_run'[l].priority
                => request_to_run'[l].request <= request_queue[i].request]_vars

\* C3: at most one request has a transport call in flight at any instant.
C3_AtMostOneExecuting == Cardinality(inflight) <= 1

C3_Witness ==
    /\ inflight # {}
    /\ request_queue # << >>
    /\ \E r \in Requests : r \notin inflight /\ callerpc[r] = "waiting"

\* C4: a request whose every attempt failed is given up only with its future
\* broken and after exactly ATTEMPT_MAX attempts; a future is never broken
\* after fewer attempts, no request gets a further attempt, and only a
\* broken future makes its caller raise.
C4_BrokenAfterExactlyMax ==
    \A r \in Requests :
       /\ attempts[r] <= ATTEMPT_MAX
       /\ promise[r].promise_broken => attempts[r] = ATTEMPT_MAX
       /\ callerpc[r] = "raised" => promise[r].promise_broken
       /\ (Settled(r) /\ Failed(r)) =>
             (promise[r].promise_broken /\ attempts[r] = ATTEMPT_MAX)

\* C5: an attempt k that succeeds fulfils the future with the result of
\* attempt k and the future is never broken; and after a failed attempt
\* k < ATTEMPT_MAX the request is not given up, so the attempt that would
\* succeed is made.
C5_RetryRecovers ==
    \A r \in Requests :
       /\ outcome[r] = "ok" =>
             /\ promise[r].complete
             /\ promise[r].return_value = Response(r, attempts[r])
             /\ ~promise[r].promise_broken
       /\ (Settled(r) /\ outcome[r] # "ok") => attempts[r] = ATTEMPT_MAX

\* C6: an attempt that is not the first one starts only when a whole pacing
\* sleep, begun after the previous attempt started, has completed.
C6_PacedAttempts ==
    [][(attempts' # attempts /\ \E r \in Requests : attempts[r] > 0) =>
          \/ paced
          \/ \E l \in Tasks : pc[l] = "pacing" /\ fresh[l] /\ pc'[l] = "get"]_vars

C6_Witness ==
    \E r1, r2 \in Requests :
       /\ r1 # r2
       /\ attempts[r1] >= 2
       /\ Resolved(promise[r1])
       /\ r2 \in inflight

\* C7: once a promise is fulfilled or broken, no later fulfill or
\* break_promise changes what wait_for_promised_request delivers.
C7_FirstResolutionWins ==
    [][\A r \in Requests :
          Resolved(promise[r]) => WaitOnce(promise'[r]) = WaitOnce(promise[r])]_vars

\* C8: every request enqueued through run_get_request eventually has its
\* future fulfilled or broken.
C8_EveryRequestResolves ==
    \A r \in Requests : (callerpc[r] = "waiting") ~> Resolved(promise[r])

\* C9: an attempt ended by a transport error is absorbed like a malformed
\* result: the task running it goes on to the pacing sleep, the request is
\* retried while attempts remain, and the future is broken on the last attempt.
C9_TransportErrorLikeMalformed ==
    \A r \in Requests : outcome[r] = "transport_error" =>
       /\ attempts[r] = ATTEMPT_MAX => promise[r].promise_broken
       /\ attempts[r] < ATTEMPT_MAX =>
             \E l \in Tasks : request_to_run[l].request = r /\ pc[l] = "pacing"

\* C10: no failure of any attempt terminates loop_and_request.
C10_LoopNeverTerminates ==
    \A l \in Tasks : pc[l] # "dead"

\* C11: wait_for_promised_request stays suspended exactly while the promise
\* is pending, has returned only for a fulfilled promise and then the
\* fulfilled value, and has raised PromiseBreakException only for a broken
\* promise that was not fulfilled.
C11_WaitDeliversOutcome ==
    \A r \in Requests :
       /\ callerpc[r] = "returned" =>
             /\ promise[r].complete
             /\ ~promise[r].promise_broken
             /\ result[r] = promise[r].return_value
       /\ callerpc[r] = "raised" =>
             /\ promise[r].promise_broken
             /\ ~promise[r].complete
             /\ result[r] = PromiseBreakMessage
       /\ callerpc[r] = "waiting" =>
             (WaitOnce(promise[r]).do = "sleep" <=> ~Resolved(promise[r]))

C11_Witness ==
    \E r1, r2, r3 \in Requests :
       /\ callerpc[r1] = "returned" /\ result[r1] = Response(r1, 2)
       /\ callerpc[r2] = "raised"
       /\ callerpc[r3] = "waiting" /\ ~Resolved(promise[r3])

\* The items a queue holds.
Items(queue) == {queue[i] : i \in 1 .. Len(queue)}

\* C12: a submission with priority p adds exactly one item to the queue, the
\* one carrying the new request and p, with a fresh pending future on which
\* the caller then waits; every other queued item and every other future is
\* unchanged, and no transport call or loop step is part of it.
C12_EnqueueFrame ==
    [][\A p \in Priority : RunGetRequest(p) =>
          /\ Len(request_queue') = Len(request_queue) + 1
          /\ Items(request_queue') =
                Items(request_queue) \cup {PrioritizedRequest(p, NextRequest)}
          /\ promise'[NextRequest] = NewPromise
          /\ callerpc'[NextRequest] = "waiting"
          /\ \A q \in Requests \ {NextRequest} : promise'[q] = promise[q]
          /\ UNCHANGED <<pc, request_to_run, attempt, attempts, inflight>>]_vars

C12_Witness ==
    /\ Len(request_queue) >= 2
    /\ \E q \in Requests : promise[q].complete
    /\ \E q \in Requests : promise[q].promise_broken

\* The loop_and_request tasks that have been started and have not ended.
Dispatching == {l \in Tasks : pc[l] \notin {"not_started", "dead"}}

\* The tasks started by a further call of loop_and_request.
StartedAgain == {l \in Tasks \ LoopTasks : pc[l] # "not_started"}

\* C13 (as claimed): however often loop_and_request is started, at most one
\* loop task is dispatching.
C13_NoSecondLoop == Cardinality(Dispatching) <= 1

\* C13 (amended): while loop_and_request has been started only by main there
\* is at most one dispatching loop and one attempt in flight; every further
\* start adds a dispatching loop, and the attempts in flight never exceed
\* the loops started.
C13_OneLoopPerStart ==
    /\ StartedAgain = {} =>
          /\ Cardinality(Dispatching) <= 1
          /\ Cardinality(inflight) <= 1
    /\ Cardinality(inflight) <= Cardinality(Dispatching)
    /\ Cardinality(Dispatching) <= 1 + Cardinality(StartedAgain)

C13_Witness ==
    /\ StartedAgain = {}
    /\ \E l \in Dispatching :
          /\ pc[l] = "get"
          /\ attempt[l] = 1
          /\ \E r \in Requests : Resolved(promise[r])

\* C14: an item a loop task takes off the queue has never been taken before,
\* by that task or any other, and is no longer in the queue afterwards.
C14_DequeuedAtMostOnce ==
    [][\A l \in Tasks : Dequeues(l) =>
          /\ attempts[request_to_run'[l].request] = 0
          /\ request_to_run'[l] \notin Items(request_queue')
          /\ \A m \in Tasks \ {l} : request_to_run[m] # request_to_run'[l]
          /\ Len(request_queue') = Len(request_queue) - 1]_vars

C14_Witness ==
    \E l, m \in Tasks :
       /\ l # m
       /\ pc[l] = "get" /\ pc[m] = "json"
       /\ request_to_run[l] # request_to_run[m]
       /\ request_queue # << >>

\* C15: every item in the queue has a pending future and has never been
\* dequeued, and a request whose future is resolved was dequeued first and
\* is not in the queue.
C15_QueueHoldsOnlyPending ==
    /\ \A i \in 1 .. Len(request_queue) :
          /\ ~Resolved(promise[request_queue[i].request])
          /\ attempts[request_queue[i].request] = 0
    /\ \A r \in Requests : Resolved(promise[r]) =>
          /\ attempts[r] > 0
          /\ \A i \in 1 .. Len(request_queue) : request_queue[i].request # r

C15_Witness ==
    /\ Len(request_queue) >= 2
    /\ \E r \in Requests : Resolved(promise[r])
    /\ \E l \in Tasks : pc[l] = "pacing" /\ attempt[l] = 2
                           /\ ~Resolved(promise[request_to_run[l].request])

\* C16: one session is open from the end of start_session on, before the
\* loop is created and so before any attempt; never a second one; and no
\* session is left open once the process has shut down.
C16_SessionOnceAndReleased ==
    /\ aiohttp_session <= 1
    /\ mainpc \in {"create_tasks", "run_forever"} => aiohttp_session = 1
    /\ (\E r \in Requests : attempts[r] > 0) => mainpc \in {"run_forever", "exited"}
    /\ mainpc = "exited" => aiohttp_session = 0

\* C17: what a caller receives on awaiting a broken promise carries the
\* error that ended the last attempt of its request.
C17_BreakCarriesReason ==
    \A r \in Requests : callerpc[r] = "raised" => result[r] = outcome[r]

\* C18: a loop task takes a new item only when the one it holds is resolved;
\* it is never back at the head of its while loop with an unresolved item; a
\* retry is the next attempt of the same item with the queue untouched; every
\* attempt is made by the task holding the item, at most ATTEMPT_MAX times.
C18_RetryInPlace ==
    [][\A l \in Tasks :
          /\ Dequeues(l) =>
                (attempt[l] = 0 \/ Resolved(promise[request_to_run[l].request]))
          /\ (pc'[l] \in {"top", "yield"} /\ attempt'[l] > 0) =>
                Resolved(promise'[request_to_run'[l].request])
          /\ (pc[l] = "pacing" /\ pc'[l] = "get") =>
                /\ request_to_run'[l] = request_to_run[l]
                /\ attempt'[l] = attempt[l] + 1
                /\ request_queue' = request_queue
          /\ \A r \in Requests : attempts'[r] # attempts[r] =>
                /\ attempts'[r] <= ATTEMPT_MAX
                /\ \E m \in Tasks : request_to_run'[m].request = r /\ pc'[m] = "get"
                                       /\ attempt'[m] = attempts'[r]]_vars

C18_Witness ==
    \E l \in Tasks :
       /\ pc[l] = "get"
       /\ attempt[l] = ATTEMPT_MAX
       /\ \E i, j \in 1 .. Len(request_queue) :
             /\ request_queue[i].priority = USER
             /\ request_queue[j].priority = SCHEDULED
             /\ request_to_run[l].request < request_queue[i].request

\* C19: a future is fulfilled only with the response to an attempt made for
\* its own request, the attempt that succeeded, and that is the value
\* run_get_request returns to the caller of that request.
C19_OwnResponse ==
    \A r \in Requests :
       /\ promise[r].complete =>
             /\ outcome[r] = "ok"
             /\ promise[r].return_value = Response(r, attempts[r])
       /\ callerpc[r] = "returned" =>
             /\ outcome[r] = "ok"
             /\ result[r] = Response(r, attempts[r])

C19_Witness ==
    \E r1, r2 \in Requests :
       /\ r1 # r2
       /\ callerpc[r1] = "returned" /\ callerpc[r2] = "returned"
       /\ result[r1][1] = r1 /\ result[r2][1] = r2
       /\ result[r1][2] # result[r2][2]

\* C20: no attempt starts for a request whose future is fulfilled or broken,
\* and a resolved request has had between 1 and ATTEMPT_MAX attempts.
C20_NoAttemptAfterResolution ==
    [][\A r \in Requests :
          /\ attempts'[r] # attempts[r] =>
                /\ ~Resolved(promise[r])
                /\ attempts'[r] = attempts[r] + 1
          /\ Resolved(promise'[r]) => attempts'[r] \in 1 .. ATTEMPT_MAX]_vars

C20_Witness ==
    \E r1, r2, r3 \in Requests :
       /\ promise[r1].complete /\ attempts[r1] = 1
       /\ promise[r2].promise_broken /\ attempts[r2] = ATTEMPT_MAX
       /\ r3 \in inflight /\ r3 \notin {r1, r2}

\* C21: no promise ever has both complete and promise_broken set, and a
\* promise is written only while it is pending, the write resolving it.
C21_ResolvedOnce ==
    [][\A r \in Requests :
          /\ ~(promise'[r].complete /\ promise'[r].promise_broken)
          /\ promise'[r] # promise[r] =>
                (~Resolved(promise[r]) /\ Resolved(promise'[r]))]_vars

C21_Witness ==
    \E r1, r2 \in Requests :
       /\ promise[r1].complete /\ attempts[r1] = 2
       /\ promise[r2].promise_broken /\ ~promise[r2].complete
       /\ \A l \in Tasks : pc[l] \in {"top", "yield", "not_started"}

\* C23: get() is reached only on a non-empty queue, whatever the interleaving
\* of enqueues and loop steps and with two loop tasks: no loop task is ever
\* blocked in get(), every dequeue takes one item off a non-empty queue, and a
\* loop that finds the queue empty only yields, starting no transport call.
C23_DequeueOnlyNonEmpty ==
    [][\A l \in Tasks :
          /\ pc'[l] # "blocked"
          /\ (pc[l] \in {"top", "yield"} /\ pc'[l] = "get") =>
                /\ request_queue # << >>
                /\ Len(request_queue') = Len(request_queue) - 1
          /\ (pc[l] = "top" /\ request_queue = << >> /\ pc'[l] # pc[l]) =>
                /\ pc'[l] = "yield"
                /\ inflight' = inflight
                /\ attempts' = attempts]_vars

\* Two loop tasks: one yielded on the empty queue while the other runs the only
\* request that was queued.
C23_Witness ==
    \E l, m \in Tasks :
       /\ l # m
       /\ pc[l] = "yield"
       /\ pc[m] = "get"
       /\ request_queue = << >>
       /\ NextRequest = 2

UserFetches == {"fetch_search", "fetch_pool"}
ScheduledFetches == {"_check_updates", "_fetch_pages"}

\* C22: every BooruInterface fetch submits a request with a priority (no
\* fetch fails before it reaches run_get_request), user-triggered fetches at
\* USER and the update checker's at SCHEDULED, and the loop never takes a
\* scheduled request off the queue while a user-triggered one is pending.
C22_FetchPriorities ==
    [][/\ fetch_pool_error' = "none"
       /\ \A i \in DOMAIN request_queue' :
             LET item == request_queue'[i]
             IN /\ origin'[item.request] \in UserFetches => item.priority = USER
                /\ origin'[item.request] \in ScheduledFetches =>
                      item.priority = SCHEDULED
       /\ \A l \in Tasks :
             (Dequeues(l) /\ origin[request_to_run'[l].request] \in ScheduledFetches) =>
                \A i \in DOMAIN request_queue :
                   origin[request_queue[i].request] \notin UserFetches]_vars

Follows(u, c) ==
    /\ c \in DOMAIN comics
    /\ comics[c].kind = "ComicObj"
    /\ u \in Range(comics[c].users)

\* C26: a call remove_user_from_comic(u, c) for a user u who follows comic c
\* leaves u out of the users of c, and when u was the only follower it leaves
\* c out of the database in memory and out of the file.
C26_RemoveUserFromComic ==
    [][\A u, c \in Ids :
          (db_call' = Call("remove_user_from_comic", u, c, db_call'.raised)
              /\ Follows(u, c)) =>
             /\ c \in DOMAIN comics' => u \notin Range(comics'[c].users)
             /\ comics[c].users = <<u>> =>
                   (c \notin DOMAIN comics' /\ c \notin DOMAIN comics_file')]_vars

\* The handler h of user u starts, or ends, in this step.
Dispatched(u, h) == CopiesIn(h, handling'[u]) > CopiesIn(h, handling[u])
Completes(u, h) == CopiesIn(h, handling'[u]) < CopiesIn(h, handling[u])

\* C24: remove_from_all(u) is called only by a handler that was given a
\* message with exactly the confirmation text while the state of u was
\* DeletingSelf.areyousure, and the state of u becomes
\* DeletingSelf.areyousure only in the step that handles a /stop message.
C24_DeleteOnlyOnConfirmation ==
    [][\A u \in Chats :
          /\ (db_call'.op = "remove_from_all" /\ db_call'.user_id = u) =>
                \E h \in BagToSet(handling[u]) :
                   /\ Completes(u, h)
                   /\ h.text = ConfirmText
                   /\ h.state = DeletingSelf_areyousure
          /\ \A v \in Ids \ {u} : ~(db_call'.op = "remove_from_all"
                                      /\ db_call'.user_id = v
                                      /\ \E h \in BagToSet(handling[u]) : Completes(u, h))
          /\ (chat_state'[u] = DeletingSelf_areyousure
                 /\ chat_state[u] # DeletingSelf_areyousure) =>
                \E h \in BagToSet(handling'[u]) :
                   /\ Dispatched(u, h)
                   /\ h.text.command = "/stop"]_vars

\* The user followed a comic, asked to stop and confirmed: the user is out
\* of the comic's users in memory and in the file.
C24_Witness ==
    \E u \in Chats : \E c \in Ids :
       /\ db_call = Call("remove_from_all", u, 0, "none")
       /\ chat_state[u] = NoState
       /\ c \in DOMAIN comics /\ comics[c] = ComicObj(<< >>)
       /\ c \in DOMAIN comics_file /\ comics_file[c] = ComicObj(<< >>)

\* C25: the handler of any message other than the confirmation text that
\* arrived in state DeletingSelf.areyousure ends with the state cleared and
\* the database untouched.
C25_AnyOtherMessageCancels ==
    [][\A u \in Chats : \A h \in BagToSet(handling[u]) :
          (Completes(u, h) /\ h.state = DeletingSelf_areyousure
              /\ h.text # ConfirmText) =>
             /\ chat_state'[u] = NoState
             /\ comics' = comics
             /\ comics_file' = comics_file]_vars

\* C25 as the code has it: in state DeletingSelf.areyousure a message other
\* than the confirmation text that does not start with /start or /stop goes
\* to dont_stop_dont_delete, which ends with the state cleared and the
\* database untouched; one that starts with /start or /stop goes to start or
\* stop, and the state is DeletingSelf.areyousure after it was taken and is
\* not changed when the handler ends.
C25_OtherMessageCancelsButStartStop ==
    [][\A u \in Chats :
          /\ \A h \in BagToSet(handling[u]) :
                (Completes(u, h) /\ h.state = DeletingSelf_areyousure
                    /\ h.text # ConfirmText) =>
                   IF h.text.command \in {"/start", "/stop"}
                   THEN /\ h.handler \in {"start", "stop"}
                        /\ chat_state'[u] = chat_state[u]
                        /\ comics' = comics /\ comics_file' = comics_file
                   ELSE /\ h.handler = "dont_stop_dont_delete"
                        /\ chat_state'[u] = NoState
                        /\ comics' = comics /\ comics_file' = comics_file
          /\ \A h \in BagToSet(handling'[u]) :
                (Dispatched(u, h) /\ h.state = DeletingSelf_areyousure
                    /\ h.text.command \in {"/start", "/stop"}) =>
                   chat_state'[u] = DeletingSelf_areyousure]_vars

\* Both cases at once: a "/search q" message taken by dont_stop_dont_delete
\* and a /start message taken by start, both received in
\* DeletingSelf.areyousure, with the user following a comic.
C25_Witness ==
    \E u \in Chats :
       /\ BagIn(Handler("dont_stop_dont_delete", Text("/search", " q"),
                        DeletingSelf_areyousure, "clear"), handling[u])
       /\ BagIn(Handler("start", Text("/start", ""),
                        DeletingSelf_areyousure, "finish"), handling[u])
       /\ \E c \in DOMAIN comics : u \in Range(comics[c].users)

\* C27: the update loop task is never ended by an error and never stopped.
C27_UpdateLoopKeepsRunning ==
    update_pc \in {"not_started", "check", "sending", "sleeping"}

=============================================================================
